---- MODULE Spec2Model ----
(***************************************************************************)
(* llmDirector: the Action execution contract (base/blocks.py), the        *)
(* Director's subscription management and recursive dispatch              *)
(* (base/director.py) and the result flattener (utils/director_utils.py). *)
(***************************************************************************)
EXTENDS Integers, Sequences, FiniteSets, TLC

(***************************************************************************)
(* Bounds of the model.                                                    *)
(***************************************************************************)
\* largest retry_count an Action under test is constructed with
MaxRetry == 2
\* subscription calls made in a run of the subscription API alone
MaxOps == 4
\* subscription calls made before the first dispatch
MaxSetup == 3
\* largest max_concurrent_actions a Director is constructed with
MaxPermits == 3
\* top-level dispatch calls a caller makes in a run
MaxCalls == 1
\* records in a result tree handed to flatten_results on its own
MaxNodes == 4
\* defaults of Director.__init__
DefaultMaxConcurrentActions == 100
DefaultMaxLogs == 1000000

(***************************************************************************)
(* Python values.  Every value is a sequence of strings whose head is its  *)
(* type tag, so that any two values can be compared.                       *)
(***************************************************************************)
NoneV == <<"None">>
StrV(s) == <<"str", s>>
\* a list of strings
ListV(xs) == <<"list">> \o xs
\* the pair (result, chain) returned by _handle_listener; the coroutine
\* objects of chain carry no data of their own and are elided
TupleV(v) == <<"tuple">> \o v
\* a raised exception of class e
RaiseV(e) == <<"raise", e>>

IsList(v) == v[1] = "list"
\* the elements of a list, each as a value
Elements(v) == [k \in 1..(Len(v) - 1) |-> StrV(v[k + 1])]

(***************************************************************************)
(* Exceptions.  E1 and E2 are two unrelated exception classes raised by    *)
(* core logic; ValueError is raised by Split; "Exception" is the base      *)
(* class, raised by the initialisation check.                              *)
(***************************************************************************)
CoreErrors == {"E1", "E2"}
RetryFilters == {"None", "Exception", "E1", "E2"}
IsInstance(e, cls) == cls = "Exception" \/ e = cls

\* what one attempt of the core logic (forward, then the parser) does
Outcomes == {"ok"} \cup CoreErrors

(***************************************************************************)
(* Action objects.  override = "x" is a subclass whose forward returns the *)
(* string "x"; override = "no" keeps the forward of its class.             *)
(***************************************************************************)
BlockTypes == {"Action", "Split", "Condition", "Termination"}

ActionObj(name, bt, rc, ro, ok, ov) ==
    [name |-> name, BLOCK_TYPE |-> bt, retry_count |-> rc, retry_on |-> ro,
     initialized |-> ok, override |-> ov]

\* the names Action.__init__ refuses
ReservedNames == {"Termination", "Save"}

\* what a constructor call does: the exception it raises ("none" when it
\* returns) and the object it returns
Built(cls, raised, obj) == [cls |-> cls, raised |-> raised, obj |-> obj]

\* Action.__init__, run by the constructor of class cls (Action itself, or a
\* subclass through super().__init__)
ActionInit(cls, name, rc, ro) ==
    IF name \in ReservedNames
    THEN Built(cls, "AssertionError", ActionObj(name, cls, rc, ro, FALSE, "no"))
    ELSE Built(cls, "none", ActionObj(name, cls, rc, ro, TRUE, "no"))

\* Split.__init__(name) and Condition.__init__(name, condition)
SplitInit(name) == ActionInit("Split", name, 0, "None")
ConditionInit(name) == ActionInit("Condition", name, 0, "None")
\* Termination.__init__()
TerminationInit == ActionInit("Termination", "Termination", 0, "None")

\* no constructor has been called
NotBuilt == Built("none", "none", ActionObj("A", "Action", 0, "None", TRUE, "no"))

\* forward of each class
Forward(self, data) ==
    IF self.override = "x" THEN StrV("x")
    ELSE IF self.BLOCK_TYPE = "Termination" THEN NoneV
    ELSE data

\* self.parser, the default lambda x: x
Parser(self, result) == result

(***************************************************************************)
(* One invocation listener(data).  st: pending (not started), running,    *)
(* ok (returned out), err (raised out).  i: index of the for loop over     *)
(* range(retry_count); n: attempts of the core logic made; slept: retry    *)
(* delays awaited.                                                         *)
(***************************************************************************)
NewCall == [st |-> "pending", i |-> 0, n |-> 0, slept |-> 0, out |-> NoneV]

\* Action.__call__ up to its first attempt: the initialisation check
ActionEnter(self, call) ==
    IF ~self.initialized
    THEN [call EXCEPT !.st = "err", !.out = RaiseV("Exception")]
    ELSE [call EXCEPT !.st = "running"]

\* one attempt inside Action.__call__
ActionAttemptDropLast(self, call, data, outcome) ==
    IF outcome = "ok"
    THEN [call EXCEPT !.st = "ok", !.n = @ + 1,
                      !.out = Parser(self, Forward(self, data))]
    ELSE IF call.i + 1 < self.retry_count
              /\ (self.retry_on = "None" \/ IsInstance(outcome, self.retry_on))
         THEN [call EXCEPT !.i = @ + 1, !.n = @ + 1, !.slept = @ + 1]
         ELSE [call EXCEPT !.st = "err", !.n = @ + 1, !.out = RaiseV(outcome)]

ActionAttemptNoFilter(self, call, data, outcome) ==
    IF outcome = "ok"
    THEN [call EXCEPT !.st = "ok", !.n = @ + 1,
                      !.out = Parser(self, Forward(self, data))]
    ELSE IF call.i < self.retry_count
         THEN [call EXCEPT !.i = @ + 1, !.n = @ + 1, !.slept = @ + 1]
         ELSE [call EXCEPT !.st = "err", !.n = @ + 1, !.out = RaiseV(outcome)]

ActionAttempt(self, call, data, outcome) ==
    IF outcome = "ok"
    THEN [call EXCEPT !.st = "ok", !.n = @ + 1,
                      !.out = Parser(self, Forward(self, data))]
    ELSE IF call.i < self.retry_count
         THEN \* inside the for loop: the except clause
              IF self.retry_on = "None" \/ IsInstance(outcome, self.retry_on)
              THEN [call EXCEPT !.i = @ + 1, !.n = @ + 1, !.slept = @ + 1]
              ELSE [call EXCEPT !.st = "err", !.n = @ + 1, !.out = RaiseV(outcome)]
         ELSE \* the else clause of the for loop: the unprotected attempt
              [call EXCEPT !.st = "err", !.n = @ + 1, !.out = RaiseV(outcome)]

\* Split.__call__: one unprotected forward, then the list check
SplitAttempt(self, call, data, outcome) ==
    IF outcome = "ok"
    THEN IF IsList(Forward(self, data))
         THEN [call EXCEPT !.st = "ok", !.n = @ + 1, !.out = Forward(self, data)]
         ELSE [call EXCEPT !.st = "err", !.n = @ + 1, !.out = RaiseV("ValueError")]
    ELSE [call EXCEPT !.st = "err", !.n = @ + 1, !.out = RaiseV(outcome)]

\* listener(data) starts: dispatch on the class of the listener
Enter(self, call) ==
    IF self.BLOCK_TYPE = "Split" THEN [call EXCEPT !.st = "running"]
    ELSE ActionEnter(self, call)

\* one attempt of a running invocation
Attempt(self, call, data, outcome) ==
    IF self.BLOCK_TYPE = "Split" THEN SplitAttempt(self, call, data, outcome)
    ELSE ActionAttempt(self, call, data, outcome)

(***************************************************************************)
(* State.                                                                  *)
(***************************************************************************)
VARIABLES
    \* a single Action invoked on its own (SpecAction)
    action,      \* the Action object
    input,       \* the data it is invoked on
    call,        \* the invocation
    attempts,    \* the outcome of every attempt so far, in order
    built,       \* what the last constructor call did: returned or raised
    \* one Director
    listeners,   \* self.listeners: event name -> sequence of listeners
    actions,     \* self.actions: action name -> listener
    reply,       \* what the last subscription call did: returned or raised
    nops,        \* subscription calls made so far
    cfg,         \* the arguments of Director.__init__
    semaphore,   \* self.semaphore: the permits available
    logs,        \* self.logs
    calls,       \* the top-level dispatch call of each caller, once it is made
    orphans,     \* _handle_listener tasks whose dispatch call has raised
    \* flatten_results called on its own (SpecFlatten)
    tree,        \* the results it is called on
    flat         \* what it returned, once it is called

actionVars == <<action, input, call, attempts, built>>
subVars == <<listeners, actions, reply, nops>>
runVars == <<cfg, semaphore, logs, calls, orphans>>
flatVars == <<tree, flat>>
vars == <<action, input, call, attempts, built, listeners, actions, reply, nops,
          cfg, semaphore, logs, calls, orphans, tree, flat>>

(***************************************************************************)
(* The listeners of the model: Action objects, each with its identity.     *)
(* a1 and a2 are two different objects constructed with the same name.     *)
(***************************************************************************)
Listeners == {"a1", "a2", "b", "s"}

Obj(l) ==
    CASE l = "a1" -> ActionObj("A", "Action", 0, "None", TRUE, "x")
      [] l = "a2" -> ActionObj("A", "Action", 1, "E1", TRUE, "no")
      [] l = "b"  -> ActionObj("B", "Action", 1, "E2", TRUE, "no")
      [] l = "s"  -> ActionObj("S", "Split", 0, "None", TRUE, "no")

\* listener.__name__
Name(l) == Obj(l).name

\* the exception class the core logic of a listener raises when it fails
Raises(l) ==
    CASE l = "a1" -> "E1"
      [] l = "a2" -> "E2"
      [] l = "b"  -> "E2"
      [] l = "s"  -> "E1"

Names == {Name(l) : l \in Listeners}
\* the event names subscription calls are made with
Events == {"start", "A", "S"}

\* x in xs, for a Python list
InList(x, xs) == \E k \in 1..Len(xs) : xs[k] = x

\* d[k] = v, for a Python dict
DictSet(d, k, v) == [x \in DOMAIN d \cup {k} |-> IF x = k THEN v ELSE d[x]]

EmptyDict == [x \in {} |-> <<>>]

\* xs.remove(x): xs without the first occurrence of x (x is in xs)
ListRemove(x, xs) ==
    LET k == CHOOSE k \in 1..Len(xs) :
                 xs[k] = x /\ \A m \in 1..(k - 1) : xs[m] # x
    IN  [m \in 1..(Len(xs) - 1) |-> IF m < k THEN xs[m] ELSE xs[m + 1]]

(***************************************************************************)
(* Subscription management.  Each operator gives the exception raised     *)
(* ("none" when the call returns) and the two dicts after the call.       *)
(***************************************************************************)
Outcome(raised, ls, acts) == [raised |-> raised, listeners |-> ls, actions |-> acts]

\* self.listeners after: if event_name not in self.listeners: ... = [];
\* self.listeners[event_name].append(listener)
AppendListener(ls, event_name, listener) ==
    DictSet(ls, event_name,
            Append(IF event_name \in DOMAIN ls THEN ls[event_name] ELSE <<>>,
                   listener))

\* subscribe without its first check
subscribeTwice(ls, acts, event_name, listener) ==
    LET action_name == Name(listener) IN
    IF action_name \in DOMAIN acts /\ listener # acts[action_name]
    THEN Outcome("DuplicateName", ls, acts)
    ELSE Outcome("none", AppendListener(ls, event_name, listener),
                 DictSet(acts, action_name, listener))

\* subscribe without its second check
subscribeOverwrite(ls, acts, event_name, listener) ==
    LET action_name == Name(listener) IN
    IF /\ action_name \in DOMAIN acts
       /\ listener = acts[action_name]
       /\ event_name \in DOMAIN ls
       /\ InList(listener, ls[event_name])
    THEN Outcome("AlreadySubscribed", ls, acts)
    ELSE Outcome("none", AppendListener(ls, event_name, listener),
                 DictSet(acts, action_name, listener))

\* Director.subscribe
subscribe(ls, acts, event_name, listener) ==
    LET action_name == Name(listener) IN
    IF /\ action_name \in DOMAIN acts
       /\ listener = acts[action_name]
       /\ event_name \in DOMAIN ls
       /\ InList(listener, ls[event_name])
    THEN Outcome("AlreadySubscribed", ls, acts)
    ELSE IF action_name \in DOMAIN acts /\ listener # acts[action_name]
    THEN Outcome("DuplicateName", ls, acts)
    ELSE Outcome("none", AppendListener(ls, event_name, listener),
                 DictSet(acts, action_name, listener))

\* add_subscription creating the event's list before its assertion
add_subscriptionKeyFirst(ls, acts, event_name, action_name) ==
    LET ls1 == IF event_name \in DOMAIN ls THEN ls ELSE DictSet(ls, event_name, <<>>)
    IN  IF action_name \notin DOMAIN acts
        THEN Outcome("AssertionError", ls1, acts)
        ELSE Outcome("none", AppendListener(ls1, event_name, acts[action_name]), acts)

\* Director.add_subscription
add_subscription(ls, acts, event_name, action_name) ==
    IF action_name \notin DOMAIN acts
    THEN Outcome("AssertionError", ls, acts)
    ELSE Outcome("none", AppendListener(ls, event_name, acts[action_name]), acts)

\* Director.remove_subscription
remove_subscription(ls, acts, event_name, action_name) ==
    IF action_name \notin DOMAIN acts
    THEN Outcome("AssertionError", ls, acts)
    ELSE IF event_name \notin DOMAIN ls
    THEN Outcome("none", ls, acts)
    ELSE IF ~InList(acts[action_name], ls[event_name])
    THEN Outcome("ValueError", ls, acts)
    ELSE Outcome("none",
                 DictSet(ls, event_name,
                         ListRemove(acts[action_name], ls[event_name])),
                 acts)

\* Director.get_subscriptions
get_subscriptions(ls, event_name) ==
    IF event_name \in DOMAIN ls
    THEN [k \in 1..Len(ls[event_name]) |-> Name(ls[event_name][k])]
    ELSE <<>>

NoReply == [op |-> "none", event_name |-> "", arg |-> "", raised |-> "none"]
Reply(op, event_name, arg, raised) ==
    [op |-> op, event_name |-> event_name, arg |-> arg, raised |-> raised]

Config(mca, ml, df, fr) ==
    [max_concurrent_actions |-> mca, max_logs |-> ml, depth_first |-> df,
     flatten_results |-> fr]

\* Director.__init__
DirectorNew(c) ==
    /\ listeners = EmptyDict
    /\ actions = EmptyDict
    /\ reply = NoReply
    /\ nops = 0
    /\ cfg = c
    /\ semaphore = c.max_concurrent_actions
    /\ logs = <<>>
    /\ calls = <<>>
    /\ orphans = [pending |-> 0, running |-> 0]

\* Director() with every argument at its default
DirectorInit ==
    DirectorNew(Config(DefaultMaxConcurrentActions, DefaultMaxLogs, FALSE, FALSE))

Subscribe(event_name, listener) ==
    LET r == subscribe(listeners, actions, event_name, listener) IN
    /\ listeners' = r.listeners
    /\ actions' = r.actions
    /\ reply' = Reply("subscribe", event_name, listener, r.raised)
    /\ nops' = nops + 1

AddSubscription(event_name, action_name) ==
    LET r == add_subscription(listeners, actions, event_name, action_name) IN
    /\ listeners' = r.listeners
    /\ actions' = r.actions
    /\ reply' = Reply("add_subscription", event_name, action_name, r.raised)
    /\ nops' = nops + 1

RemoveSubscription(event_name, action_name) ==
    LET r == remove_subscription(listeners, actions, event_name, action_name) IN
    /\ listeners' = r.listeners
    /\ actions' = r.actions
    /\ reply' = Reply("remove_subscription", event_name, action_name, r.raised)
    /\ nops' = nops + 1

(***************************************************************************)
(* Results.  What a dispatch call returns is None or a list of records;    *)
(* a record is a dict with the keys event_name and result, and with the    *)
(* key chain when has_chain holds.                                         *)
(***************************************************************************)
NullRet == [null |-> TRUE, recs |-> <<>>]
ListRet(recs) == [null |-> FALSE, recs |-> recs]

\* {"event_name": ..., "result": ..., "chain": ...}
Rec(event_name, result, chain) ==
    [event_name |-> event_name, result |-> result, has_chain |-> TRUE,
     chain |-> chain]
\* {"event_name": ..., "result": ...}
Pair(event_name, result) ==
    [event_name |-> event_name, result |-> result, has_chain |-> FALSE,
     chain |-> NullRet]

\* the for loop of flatten_results, from the k-th record on
RECURSIVE FlattenFrom(_, _)
FlattenFrom(results, k) ==
    IF k > Len(results) THEN <<>>
    ELSE LET result == results[k] IN
         <<Pair(result.event_name, result.result)>>
         \o (IF result.has_chain /\ ~result.chain.null
             THEN result.chain.recs ELSE <<>>)
         \o FlattenFrom(results, k + 1)

\* flatten_results that forgets the chains
flatten_resultsNoChain(results) ==
    [k \in 1..Len(results) |-> Pair(results[k].event_name, results[k].result)]

\* utils.director_utils.flatten_results
flatten_results(results) == FlattenFrom(results, 1)

(***************************************************************************)
(* Dispatch.  A top-level call Director.__call__(event_name, data) and the *)
(* nested calls it awaits form a stack of frames: `await process` runs the *)
(* nested call inside the awaiting one.  The _handle_listener tasks of a   *)
(* frame run concurrently with the stack.                                  *)
(*                                                                         *)
(* pc of a frame: "acquire" (waiting for a permit), "task" (awaiting the   *)
(* task of listener i), "call" (awaiting the nested call of element j of   *)
(* chain, the frame above it), "exit" (returning ret), "raise" (raising    *)
(* err).  data is the local variable data, which the loops assign to;      *)
(* payload keeps the argument the call was made with.                      *)
(***************************************************************************)
NewFrame(event_name, data) ==
    [event_name |-> event_name, payload |-> data, data |-> data,
     pc |-> "acquire", i |-> 0,
     j |-> 0, tasks |-> <<>>, chain |-> <<>>, results |-> <<>>,
     ret |-> NullRet, err |-> NoneV]

\* asyncio.create_task(self._handle_listener(listener, data))
CreateTask(listener, data) == [listener |-> listener, data |-> data, c |-> NewCall]

\* Director.log: a deque of at most max_logs messages
Log(lg, message) ==
    LET a == Append(lg, message) IN
    IF Len(a) > cfg.max_logs THEN Tail(a) ELSE a

Step(f, lg) == [f |-> f, logs |-> lg]

\* the end of Director.__call__: the log, the flattening and the return
Complete(f, lg) ==
    Step([f EXCEPT !.pc = "exit",
                   !.ret = ListRet(IF cfg.flatten_results
                                   THEN flatten_results(f.results)
                                   ELSE f.results)],
         Log(lg, <<"completed", f.event_name>>))

\* the loops of Director.__call__ move on to the next listener: depth-first
\* creates its task now, with the current value of data; breadth-first has
\* created every task already and awaits the next one
NextListener(f, lg) ==
    LET subs == listeners[f.event_name]
        n == f.i + 1
    IN  IF n > Len(subs) THEN Complete(f, lg)
        ELSE IF cfg.depth_first
        THEN Step([f EXCEPT !.i = n, !.pc = "task",
                            !.tasks = Append(@, CreateTask(subs[n], f.data))], lg)
        ELSE Step([f EXCEPT !.i = n, !.pc = "task"], lg)

\* Director.__call__ creating every task on entry in depth-first mode too
EnteredAllTasks(f, lg) ==
    IF f.event_name \in DOMAIN listeners
    THEN LET subs == listeners[f.event_name]
             f1 == [f EXCEPT !.tasks = [k \in 1..Len(subs) |->
                                          CreateTask(subs[k], f.data)]]
         IN  NextListener(f1, Log(lg, <<"processing", f.event_name>>))
    ELSE Step([f EXCEPT !.pc = "exit", !.ret = NullRet],
              Log(lg, <<"no listeners", f.event_name>>))

\* Director.__call__ from the acquisition of its permit to its first await
Entered(f, lg) ==
    IF f.event_name \in DOMAIN listeners
    THEN LET subs == listeners[f.event_name]
             f1 == IF cfg.depth_first THEN f
                   ELSE [f EXCEPT !.tasks = [k \in 1..Len(subs) |->
                                               CreateTask(subs[k], f.data)]]
         IN  NextListener(f1, Log(lg, <<"processing", f.event_name>>))
    ELSE Step([f EXCEPT !.pc = "exit", !.ret = NullRet],
              Log(lg, <<"no listeners", f.event_name>>))

\* _handle_listener without the fan-out of Split
ChainWhole(listener, result) == <<result>>

\* the chain _handle_listener builds: the payloads of the nested calls
Chain(listener, result) ==
    IF Obj(listener).BLOCK_TYPE = "Split" THEN Elements(result) ELSE <<result>>

\* the loop over chain_results: await the next nested call, or move on
NextProcess(f, lg) ==
    IF f.j <= Len(f.chain) THEN Step([f EXCEPT !.pc = "call"], lg)
    ELSE NextListener(f, lg)

\* data = await action_completion, for a task that has finished
Awaited(f, lg) ==
    LET t == f.tasks[f.i] IN
    IF t.c.st = "err"
    THEN Step([f EXCEPT !.pc = "raise", !.err = t.c.out], lg)
    ELSE NextProcess([f EXCEPT !.data = TupleV(t.c.out),
                               !.chain = Chain(t.listener, t.c.out),
                               !.j = 1], lg)

\* output = await process, for a nested call that has returned ret
Delivered(f, ret, lg) ==
    LET t == f.tasks[f.i] IN
    NextProcess([f EXCEPT !.results = Append(@, Rec(Name(t.listener), t.c.out, ret)),
                          !.j = @ + 1], lg)

\* the awaiting call takes the exception of a nested call for a None result
PropagatedSwallowed(f, err) ==
    [f EXCEPT !.results = Append(@, Rec(Name(f.tasks[f.i].listener),
                                        f.tasks[f.i].c.out, NullRet)),
              !.j = @ + 1]

\* a nested call raised err: it propagates out of the awaiting call
Propagated(f, err) == [f EXCEPT !.pc = "raise", !.err = err]

\* the stack `below` with f on top of it; a frame that awaits a nested call
\* has that call above it
Resume(below, f) ==
    IF f.pc = "call"
    THEN below \o <<f, NewFrame(Name(f.tasks[f.i].listener), f.chain[f.j])>>
    ELSE below \o <<f>>

Top(c) == calls[c].stack[Len(calls[c].stack)]
Below(c) == SubSeq(calls[c].stack, 1, Len(calls[c].stack) - 1)
Active(c) == c \in DOMAIN calls /\ calls[c].st = "active"

\* the tasks of f that have not finished
Unfinished(f, st) == Cardinality({k \in DOMAIN f.tasks : f.tasks[k].c.st = st})

\* the coroutines of the program that make top-level calls: each awaits its
\* call before it makes another, and they run concurrently with one
\* another (asyncio.gather)
Callers == {1, 2}

\* the top-level calls caller c has made so far
Made(c) == IF c \in DOMAIN calls THEN calls[c].made ELSE 0

\* caller c awaits director(event_name, data), whatever else is in progress;
\* what its earlier call returned or raised is dropped.  calls[c] is the
\* call of caller c: caller 2 is the one that makes its first call second
Dispatch(c, event_name, data) ==
    LET new == [event_name |-> event_name, data |-> data, st |-> "active",
                stack |-> <<NewFrame(event_name, data)>>,
                ret |-> NullRet, err |-> NoneV, made |-> Made(c) + 1]
    IN  /\ IF c \in DOMAIN calls
           THEN /\ calls[c].st # "active"
                /\ calls' = [calls EXCEPT ![c] = new]
           ELSE /\ c = Len(calls) + 1
                /\ calls' = Append(calls, new)
        /\ reply' = NoReply
        /\ nops' = 0
        /\ UNCHANGED <<listeners, actions, cfg, semaphore, logs, orphans>>

\* a semaphore that never makes a call wait
AcquireNoWait(c) ==
    /\ Active(c)
    /\ Top(c).pc = "acquire"
    /\ LET r == Entered(Top(c), logs) IN
          /\ calls' = [calls EXCEPT ![c].stack = Resume(Below(c), r.f)]
          /\ logs' = r.logs
    /\ semaphore' = semaphore - 1
    /\ UNCHANGED <<subVars, cfg, orphans>>

\* async with self.semaphore: a permit is available
Acquire(c) ==
    /\ Active(c)
    /\ Top(c).pc = "acquire"
    /\ semaphore > 0
    /\ LET r == Entered(Top(c), logs) IN
          /\ calls' = [calls EXCEPT ![c].stack = Resume(Below(c), r.f)]
          /\ logs' = r.logs
    /\ semaphore' = semaphore - 1
    /\ UNCHANGED <<subVars, cfg, orphans>>

\* the task the call awaits has finished
AwaitTask(c) ==
    /\ Active(c)
    /\ Top(c).pc = "task"
    /\ Top(c).tasks[Top(c).i].c.st \in {"ok", "err"}
    /\ LET r == Awaited(Top(c), logs) IN
          /\ calls' = [calls EXCEPT ![c].stack = Resume(Below(c), r.f)]
          /\ logs' = r.logs
    /\ UNCHANGED <<subVars, cfg, semaphore, orphans>>

\* a call returning without releasing its permit
ReturnKeepsPermit(c) ==
    /\ Active(c)
    /\ Top(c).pc = "exit"
    /\ semaphore' = semaphore
    /\ IF Len(calls[c].stack) = 1
       THEN /\ calls' = [calls EXCEPT ![c].st = "returned", ![c].stack = <<>>,
                                      ![c].ret = Top(c).ret]
            /\ logs' = logs
       ELSE LET below == Below(c)
                r == Delivered(below[Len(below)], Top(c).ret, logs)
            IN  /\ calls' = [calls EXCEPT ![c].stack =
                               Resume(SubSeq(below, 1, Len(below) - 1), r.f)]
                /\ logs' = r.logs
    /\ UNCHANGED <<subVars, cfg, orphans>>

\* a call returns: its permit is released, its caller resumes
Return(c) ==
    /\ Active(c)
    /\ Top(c).pc = "exit"
    /\ semaphore' = semaphore + 1
    /\ IF Len(calls[c].stack) = 1
       THEN /\ calls' = [calls EXCEPT ![c].st = "returned", ![c].stack = <<>>,
                                      ![c].ret = Top(c).ret]
            /\ logs' = logs
       ELSE LET below == Below(c)
                r == Delivered(below[Len(below)], Top(c).ret, logs)
            IN  /\ calls' = [calls EXCEPT ![c].stack =
                               Resume(SubSeq(below, 1, Len(below) - 1), r.f)]
                /\ logs' = r.logs
    /\ UNCHANGED <<subVars, cfg, orphans>>

\* an exception leaving the call without releasing its permit
RaiseKeepsPermit(c) ==
    /\ Active(c)
    /\ Top(c).pc = "raise"
    /\ semaphore' = semaphore
    /\ orphans' = [pending |-> orphans.pending + Unfinished(Top(c), "pending"),
                   running |-> orphans.running + Unfinished(Top(c), "running")]
    /\ IF Len(calls[c].stack) = 1
       THEN calls' = [calls EXCEPT ![c].st = "raised", ![c].stack = <<>>,
                                   ![c].err = Top(c).err]
       ELSE LET below == Below(c) IN
            calls' = [calls EXCEPT ![c].stack =
                        SubSeq(below, 1, Len(below) - 1)
                        \o <<Propagated(below[Len(below)], Top(c).err)>>]
    /\ UNCHANGED <<subVars, cfg, logs>>

\* a call raises: its permit is released, its unfinished tasks run on, the
\* exception reaches its caller
Raise(c) ==
    /\ Active(c)
    /\ Top(c).pc = "raise"
    /\ semaphore' = semaphore + 1
    /\ orphans' = [pending |-> orphans.pending + Unfinished(Top(c), "pending"),
                   running |-> orphans.running + Unfinished(Top(c), "running")]
    /\ IF Len(calls[c].stack) = 1
       THEN calls' = [calls EXCEPT ![c].st = "raised", ![c].stack = <<>>,
                                   ![c].err = Top(c).err]
       ELSE LET below == Below(c) IN
            calls' = [calls EXCEPT ![c].stack =
                        SubSeq(below, 1, Len(below) - 1)
                        \o <<Propagated(below[Len(below)], Top(c).err)>>]
    /\ UNCHANGED <<subVars, cfg, logs>>

\* a task starts: result = await listener(data)
TaskEnter(c, k, t) ==
    /\ Active(c)
    /\ calls[c].stack[k].tasks[t].c.st = "pending"
    /\ calls' = [calls EXCEPT ![c].stack[k].tasks[t].c =
                   Enter(Obj(calls[c].stack[k].tasks[t].listener), @)]
    /\ UNCHANGED <<subVars, cfg, semaphore, logs, orphans>>

\* a running listener makes one attempt of its core logic
TaskAttempt(c, k, t, outcome) ==
    /\ Active(c)
    /\ calls[c].stack[k].tasks[t].c.st = "running"
    /\ calls' = [calls EXCEPT ![c].stack[k].tasks[t].c =
                   Attempt(Obj(calls[c].stack[k].tasks[t].listener), @,
                           calls[c].stack[k].tasks[t].data, outcome)]
    /\ UNCHANGED <<subVars, cfg, semaphore, logs, orphans>>

\* a task nobody awaits any more starts its listener
OrphanEnter ==
    /\ orphans.pending > 0
    /\ orphans' = [pending |-> orphans.pending - 1, running |-> orphans.running + 1]
    /\ UNCHANGED <<subVars, cfg, semaphore, logs, calls>>

\* a task nobody awaits any more finishes, its result is dropped
OrphanFinish ==
    /\ orphans.running > 0
    /\ orphans' = [orphans EXCEPT !.running = @ - 1]
    /\ UNCHANGED <<subVars, cfg, semaphore, logs, calls>>

(***************************************************************************)
(* SpecAction: one Action object, constructed with any retry policy,      *)
(* invoked once on any input.                                              *)
(***************************************************************************)
Inputs == {StrV("d"), ListV(<<>>), ListV(<<"a", "b">>)}

ActionObjects ==
    { ActionObj("A", bt, rc, ro, ok, ov) :
        bt \in {"Action", "Condition"}, rc \in 0..MaxRetry, ro \in RetryFilters,
        ok \in BOOLEAN, ov \in {"no", "x"} }
    \cup { ActionObj("S", "Split", 0, "None", TRUE, "no") }

\* no Action is under test
ActionIdle ==
    /\ action = ActionObj("A", "Action", 0, "None", TRUE, "no")
    /\ input = NoneV
    /\ call = NewCall
    /\ attempts = <<>>
    /\ built = NotBuilt

\* flatten_results is not called on its own
FlattenIdle == tree = <<>> /\ flat = NullRet

InitAction ==
    /\ action \in ActionObjects
    /\ input \in Inputs
    /\ call = NewCall
    /\ attempts = <<>>
    /\ built = NotBuilt
    /\ DirectorInit
    /\ FlattenIdle

CallEnter ==
    /\ call.st = "pending"
    /\ call' = Enter(action, call)
    /\ UNCHANGED <<action, input, attempts, built>>
    /\ UNCHANGED <<subVars, runVars, flatVars>>

CallAttempt ==
    /\ call.st = "running"
    /\ \E outcome \in Outcomes :
          /\ call' = Attempt(action, call, input, outcome)
          /\ attempts' = Append(attempts, outcome)
    /\ UNCHANGED <<action, input, built>>
    /\ UNCHANGED <<subVars, runVars, flatVars>>

NextAction == CallEnter \/ CallAttempt

SpecAction == InitAction /\ [][NextAction]_vars

(***************************************************************************)
(* SpecConstruct: one constructor call of any block class with any name,   *)
(* and, when it returns an object, one invocation of that object.          *)
(***************************************************************************)
CtorNames == {"A", "Termination", "Save"}

InitConstruct ==
    /\ action = NotBuilt.obj
    /\ input \in Inputs \cup {NoneV}
    /\ call = NewCall
    /\ attempts = <<>>
    /\ built = NotBuilt
    /\ DirectorInit
    /\ FlattenIdle

\* x = Cls(...): x is bound only when the constructor returns
Construct(b) ==
    /\ built.cls = "none"
    /\ built' = b
    /\ action' = IF b.raised = "none" THEN b.obj ELSE action
    /\ UNCHANGED <<input, call, attempts>>
    /\ UNCHANGED <<subVars, runVars, flatVars>>

NewAction ==
    \E name \in CtorNames, rc \in 0..MaxRetry, ro \in RetryFilters :
       Construct(ActionInit("Action", name, rc, ro))
NewSplit == \E name \in CtorNames : Construct(SplitInit(name))
NewCondition == \E name \in CtorNames : Construct(ConditionInit(name))
NewTermination == Construct(TerminationInit)

\* the object the constructor returned is invoked
BuiltEnter == built.cls # "none" /\ built.raised = "none" /\ CallEnter
BuiltAttempt == built.cls # "none" /\ built.raised = "none" /\ CallAttempt

NextConstruct ==
    \/ NewAction
    \/ NewSplit
    \/ NewCondition
    \/ NewTermination
    \/ BuiltEnter
    \/ BuiltAttempt

SpecConstruct == InitConstruct /\ [][NextConstruct]_vars

(***************************************************************************)
(* SpecSub: any sequence of at most MaxOps subscription calls on a new    *)
(* Director.                                                               *)
(***************************************************************************)
InitSub == ActionIdle /\ DirectorInit /\ FlattenIdle

SubSubscribe ==
    /\ nops < MaxOps
    /\ \E e \in Events, l \in Listeners : Subscribe(e, l)
    /\ UNCHANGED <<actionVars, runVars, flatVars>>

SubAdd ==
    /\ nops < MaxOps
    /\ \E e \in Events, n \in Names : AddSubscription(e, n)
    /\ UNCHANGED <<actionVars, runVars, flatVars>>

SubRemove ==
    /\ nops < MaxOps
    /\ \E e \in Events, n \in Names : RemoveSubscription(e, n)
    /\ UNCHANGED <<actionVars, runVars, flatVars>>

NextSub == SubSubscribe \/ SubAdd \/ SubRemove

SpecSub == InitSub /\ [][NextSub]_vars

(***************************************************************************)
(* Spec: a Director keeping one log message, constructed with any other    *)
(* arguments; the caller wires the                                         *)
(* graph with at most MaxSetup calls of subscribe and remove_subscription   *)
(* and then makes at most MaxCalls top-level dispatch calls from one        *)
(* coroutine, each awaited before the next is made, while tasks left       *)
(* behind by a call that raised may still run.                             *)
(***************************************************************************)
\* the subscriptions the caller may ask for in Spec: a listener is wired to
\* "start" or to the name of a listener before it in the order s, a1, b, which
\* keeps the graph acyclic
Wiring == {<<"start", "s">>, <<"start", "a1">>, <<"S", "a1">>,
           <<"start", "b">>, <<"S", "b">>, <<"A", "b">>}
\* the events and payloads of the top-level calls
TopEvents == {"start", "A"}
Payloads == {StrV("d"), ListV(<<>>), ListV(<<"a", "b">>)}

Init ==
    /\ ActionIdle
    /\ FlattenIdle
    /\ \E mca \in 1..MaxPermits, df \in BOOLEAN, fr \in BOOLEAN :
          DirectorNew(Config(mca, 1, df, fr))

SetupSubscribe ==
    /\ nops < MaxSetup /\ calls = <<>>
    /\ \E w \in Wiring : Subscribe(w[1], w[2])
    /\ UNCHANGED <<actionVars, runVars, flatVars>>

SetupRemove ==
    /\ nops < MaxSetup /\ calls = <<>>
    /\ \E w \in Wiring : RemoveSubscription(w[1], Name(w[2]))
    /\ UNCHANGED <<actionVars, runVars, flatVars>>

CallDispatch ==
    /\ Made(1) < MaxCalls
    /\ \E e \in TopEvents, d \in Payloads : Dispatch(1, e, d)
    /\ UNCHANGED <<actionVars, flatVars>>

CallAcquire == (\E c \in DOMAIN calls : Acquire(c)) /\ UNCHANGED <<actionVars, flatVars>>
CallAwaitTask == (\E c \in DOMAIN calls : AwaitTask(c)) /\ UNCHANGED <<actionVars, flatVars>>
CallReturn == (\E c \in DOMAIN calls : Return(c)) /\ UNCHANGED <<actionVars, flatVars>>
CallRaise == (\E c \in DOMAIN calls : Raise(c)) /\ UNCHANGED <<actionVars, flatVars>>

ListenerEnter ==
    /\ \E c \in DOMAIN calls :
         \E k \in DOMAIN calls[c].stack :
           \E t \in DOMAIN calls[c].stack[k].tasks : TaskEnter(c, k, t)
    /\ UNCHANGED <<actionVars, flatVars>>

ListenerAttempt ==
    /\ \E c \in DOMAIN calls :
         \E k \in DOMAIN calls[c].stack :
           \E t \in DOMAIN calls[c].stack[k].tasks :
             \E outcome \in {"ok", Raises(calls[c].stack[k].tasks[t].listener)} :
               TaskAttempt(c, k, t, outcome)
    /\ UNCHANGED <<actionVars, flatVars>>

OrphanStart == OrphanEnter /\ UNCHANGED <<actionVars, flatVars>>
OrphanEnd == OrphanFinish /\ UNCHANGED <<actionVars, flatVars>>

Next ==
    \/ SetupSubscribe
    \/ SetupRemove
    \/ CallDispatch
    \/ CallAcquire
    \/ CallAwaitTask
    \/ CallReturn
    \/ CallRaise
    \/ ListenerEnter
    \/ ListenerAttempt
    \/ OrphanStart
    \/ OrphanEnd

Spec == Init /\ [][Next]_vars

(***************************************************************************)
(* SpecGather: a Director with nested results and one log message; the     *)
(* program wires a graph of a1 and b and then runs two coroutines          *)
(* concurrently (asyncio.gather), each making at most MaxCalls top-level   *)
(* dispatch calls of "start".                                              *)
(***************************************************************************)
GatherWiring == {<<"start", "a1">>, <<"start", "b">>, <<"A", "b">>}

InitGather ==
    /\ ActionIdle
    /\ FlattenIdle
    /\ \E mca \in 1..MaxPermits, df \in BOOLEAN :
          DirectorNew(Config(mca, 1, df, FALSE))

GatherSubscribe ==
    /\ nops < MaxSetup /\ calls = <<>>
    /\ \E w \in GatherWiring : Subscribe(w[1], w[2])
    /\ UNCHANGED <<actionVars, runVars, flatVars>>

GatherDispatch ==
    /\ \E c \in Callers : Made(c) < MaxCalls /\ Dispatch(c, "start", StrV("d"))
    /\ UNCHANGED <<actionVars, flatVars>>

NextGather ==
    \/ GatherSubscribe
    \/ GatherDispatch
    \/ CallAcquire
    \/ CallAwaitTask
    \/ CallReturn
    \/ CallRaise
    \/ ListenerEnter
    \/ ListenerAttempt
    \/ OrphanStart
    \/ OrphanEnd

SpecGather == InitGather /\ [][NextGather]_vars

(***************************************************************************)
(* SpecLive: the program of Spec making a single top-level dispatch call,  *)
(* under the scheduling of the asyncio event loop: a coroutine or task     *)
(* that can run is run.  Nothing obliges the caller to make the call.      *)
(***************************************************************************)
LiveDispatch ==
    /\ calls = <<>>
    /\ \E e \in TopEvents, d \in Payloads : Dispatch(1, e, d)
    /\ UNCHANGED <<actionVars, flatVars>>

NextLive ==
    \/ SetupSubscribe
    \/ SetupRemove
    \/ LiveDispatch
    \/ CallAcquire
    \/ CallAwaitTask
    \/ CallReturn
    \/ CallRaise
    \/ ListenerEnter
    \/ ListenerAttempt
    \/ OrphanStart
    \/ OrphanEnd

SpecLive ==
    /\ Init
    /\ [][NextLive]_vars
    /\ WF_vars(CallAcquire)
    /\ WF_vars(CallAwaitTask)
    /\ WF_vars(CallReturn)
    /\ WF_vars(CallRaise)
    /\ WF_vars(ListenerEnter)
    /\ WF_vars(ListenerAttempt)

(***************************************************************************)
(* SpecFlatten: flatten_results called once on any list of records of at   *)
(* most MaxNodes records in all, built record by record.                   *)
(***************************************************************************)
RECURSIVE Size(_)
\* the records of a result tree
Size(results) ==
    IF results = <<>> THEN 0
    ELSE 1 + (IF Head(results).has_chain THEN Size(Head(results).chain.recs) ELSE 0)
           + Size(Tail(results))

RECURSIVE PreOrder(_)
\* the {event_name, result} pairs of a depth-first pre-order walk
PreOrder(results) ==
    IF results = <<>> THEN <<>>
    ELSE LET r == Head(results) IN
         <<Pair(r.event_name, r.result)>>
         \o (IF r.has_chain /\ ~r.chain.null THEN PreOrder(r.chain.recs) ELSE <<>>)
         \o PreOrder(Tail(results))

InitFlatten == ActionIdle /\ DirectorInit /\ FlattenIdle

\* one more record at the end of the list: without the key chain, or with
\* chain None
TreeAppend ==
    /\ flat.null
    /\ Size(tree) < MaxNodes
    /\ \E n \in {"A", "B"} :
          \E r \in {Pair(n, StrV("x")), Rec(n, StrV("x"), NullRet)} :
             tree' = Append(tree, r)
    /\ UNCHANGED <<flat, actionVars, subVars, runVars>>

\* the list becomes the chain of a new record
TreeWrap ==
    /\ flat.null
    /\ Size(tree) < MaxNodes
    /\ \E n \in {"A", "B"} : tree' = <<Rec(n, StrV("x"), ListRet(tree))>>
    /\ UNCHANGED <<flat, actionVars, subVars, runVars>>

\* flatten_results(tree)
TreeFlatten ==
    /\ flat.null
    /\ flat' = ListRet(flatten_results(tree))
    /\ UNCHANGED <<tree, actionVars, subVars, runVars>>

NextFlatten == TreeAppend \/ TreeWrap \/ TreeFlatten

SpecFlatten == InitFlatten /\ [][NextFlatten]_vars

(***************************************************************************)
(* Claims about the Action execution contract (SpecAction).                *)
(***************************************************************************)
\* the except clause retries this outcome: it is an error, and no filter is
\* set or the error matches the filter
Retryable(outcome) ==
    /\ outcome \in CoreErrors
    /\ (action.retry_on = "None" \/ IsInstance(outcome, action.retry_on))

\* a properly constructed object whose invocation runs Action.__call__
RunsActionCall == action.BLOCK_TYPE # "Split" /\ action.initialized

\* C1: an Action with retry_count = n whose core logic raises a retryable
\* error on every attempt keeps attempting until it has made exactly n+1
\* attempts, and then raises the error of the last attempt.
C1_RetryExhausted ==
    (/\ RunsActionCall
     /\ call.st # "pending"
     /\ \A k \in 1..Len(attempts) : Retryable(attempts[k]))
    => IF Len(attempts) = action.retry_count + 1
       THEN /\ call.st = "err"
            /\ call.out = RaiseV(attempts[Len(attempts)])
            /\ call.n = action.retry_count + 1
       ELSE /\ Len(attempts) < action.retry_count + 1
            /\ call.st = "running"
            /\ call.n = Len(attempts)

C1_Witness ==
    /\ RunsActionCall
    /\ action.retry_count = 2
    /\ action.retry_on = "E1"
    /\ attempts = <<"E1", "E1", "E1">>
    /\ call.st = "err"
    /\ call.out = RaiseV("E1")

\* C2: with a retry_on filter set, an error that does not match the filter
\* ends the invocation at the attempt that raised it: that error is raised, no
\* further attempt is made and no delay is awaited for it (so a non-matching
\* error on the first attempt means exactly one attempt and no delay at all).
C2_NonRetryablePropagates ==
    RunsActionCall =>
      \A k \in 1..Len(attempts) :
        (attempts[k] \in CoreErrors /\ ~Retryable(attempts[k]))
        => /\ k = Len(attempts)
           /\ call.st = "err"
           /\ call.out = RaiseV(attempts[k])
           /\ call.n = k
           /\ call.slept = k - 1

C2_Witness ==
    /\ RunsActionCall
    /\ action.retry_count = 2
    /\ action.retry_on = "E1"
    /\ attempts = <<"E2">>
    /\ call.st = "err"
    /\ call.out = RaiseV("E2")
    /\ call.slept = 0

(***************************************************************************)
(* Claims about the constructors (SpecConstruct).                          *)
(***************************************************************************)
\* C11 (as claimed): Termination() returns an object named "Termination"
\* whose every invocation returns None whatever the input, and the
\* constructor of any other block called with the name "Termination" or
\* "Save" raises.
C11_TerminationBuilt ==
    /\ built.cls = "Termination" =>
          /\ built.raised = "none"
          /\ action.name = "Termination"
          /\ action.BLOCK_TYPE = "Termination"
          /\ call.st = "ok" => call.out = NoneV
    /\ (built.cls \in {"Action", "Split", "Condition"}
        /\ built.obj.name \in ReservedNames) => built.raised # "none"

(***************************************************************************)
(* Claims about subscription management (SpecSub).                         *)
(***************************************************************************)
\* C4: subscribe(event, action) raises AlreadySubscribed when this listener
\* is already in the event's sequence, raises DuplicateName when another
\* listener is registered under its name, leaves both dicts unchanged in
\* these two cases, and otherwise appends the listener at the end of the
\* event's sequence (and registers it under its name).
C4_SubscribeContract ==
    [][(reply'.op = "subscribe" /\ nops' = nops + 1) =>
         LET e == reply'.event_name
             l == reply'.arg
         IN  IF e \in DOMAIN listeners /\ InList(l, listeners[e])
             THEN /\ reply'.raised = "AlreadySubscribed"
                  /\ listeners' = listeners /\ actions' = actions
             ELSE IF Name(l) \in DOMAIN actions /\ actions[Name(l)] # l
             THEN /\ reply'.raised = "DuplicateName"
                  /\ listeners' = listeners /\ actions' = actions
             ELSE /\ reply'.raised = "none"
                  /\ DOMAIN listeners' = DOMAIN listeners \cup {e}
                  /\ listeners'[e] =
                       Append(IF e \in DOMAIN listeners THEN listeners[e] ELSE <<>>, l)
                  /\ \A x \in DOMAIN listeners \ {e} : listeners'[x] = listeners[x]
                  /\ actions' = DictSet(actions, Name(l), l)]_vars

\* a1 is subscribed to "start" and a2, another object named "A", was refused
C4_Witness ==
    /\ reply = Reply("subscribe", "A", "a2", "DuplicateName")
    /\ "A" \in DOMAIN actions /\ actions["A"] = "a1"
    /\ "start" \in DOMAIN listeners /\ listeners["start"] = <<"a1">>
    /\ "A" \notin DOMAIN listeners

\* C12: add_subscription(event, name) and remove_subscription(event, name)
\* with a name that is not registered raise AssertionError (the code's
\* UnknownActionError) and leave self.listeners and self.actions unchanged;
\* add_subscription with a registered name returns, having appended the
\* listener registered under that name at the end of the event's sequence,
\* and changes nothing else.
C12_UnknownNameRefused ==
    [][(reply'.op \in {"add_subscription", "remove_subscription"}
        /\ nops' = nops + 1) =>
         LET e == reply'.event_name
             n == reply'.arg
         IN  IF n \notin DOMAIN actions
             THEN /\ reply'.raised = "AssertionError"
                  /\ listeners' = listeners /\ actions' = actions
             ELSE /\ reply'.raised # "AssertionError"
                  /\ actions' = actions
                  /\ reply'.op = "add_subscription" =>
                       /\ reply'.raised = "none"
                       /\ DOMAIN listeners' = DOMAIN listeners \cup {e}
                       /\ listeners'[e] =
                            Append(IF e \in DOMAIN listeners THEN listeners[e]
                                   ELSE <<>>, actions[n])
                       /\ \A x \in DOMAIN listeners \ {e} :
                            listeners'[x] = listeners[x]]_vars

\* a1, named "A", is added to "start" by name after a1 and b: it comes last;
\* nothing was ever subscribed under the name "S"
C12_Witness ==
    /\ reply = Reply("add_subscription", "start", "A", "none")
    /\ "start" \in DOMAIN listeners /\ listeners["start"] = <<"a1", "b", "a1">>
    /\ DOMAIN actions = {"A", "B"} /\ actions["A"] = "a1"

\* C17: whatever subscription calls are made, failed ones included, a name
\* once registered stays registered to the same listener object, and every
\* entry of every event's sequence is the object registered under its own
\* name (so no two different objects of one name are ever wired); the same
\* object may be in the sequences of several events.
C17_OneInstancePerName ==
    [][/\ \A n \in DOMAIN actions :
            n \in DOMAIN actions' /\ actions'[n] = actions[n]
       /\ \A n \in DOMAIN actions' : Name(actions'[n]) = n
       /\ \A e \in DOMAIN listeners' :
            \A k \in 1..Len(listeners'[e]) :
               /\ Name(listeners'[e][k]) \in DOMAIN actions'
               /\ actions'[Name(listeners'[e][k])] = listeners'[e][k]]_vars

\* a1 is subscribed to two events, and a2, another object named "A", has
\* just been refused for a third
C17_Witness ==
    /\ reply = Reply("subscribe", "S", "a2", "DuplicateName")
    /\ DOMAIN listeners = {"start", "A"}
    /\ listeners["start"] = <<"a1">>
    /\ listeners["A"] = <<"a1">>
    /\ actions["A"] = "a1"

\* xs without every occurrence of x
Without(x, xs) == SelectSeq(xs, LAMBDA y : y # x)

\* C18 (as claimed): remove_subscription(event, name) with a registered name
\* returns; afterwards the action is not in get_subscriptions(event), the
\* other subscribers of the event are in the order they were in, and nothing
\* else changed; when the action was not subscribed to the event, nothing
\* changes at all and no error is raised.
C18_RemoveUnlists ==
    [][(reply'.op = "remove_subscription" /\ nops' = nops + 1
        /\ reply'.arg \in DOMAIN actions) =>
         LET e == reply'.event_name
             l == actions[reply'.arg]
         IN  /\ reply'.raised = "none"
             /\ ~InList(reply'.arg, get_subscriptions(listeners', e))
             /\ actions' = actions
             /\ IF e \in DOMAIN listeners /\ InList(l, listeners[e])
                THEN /\ DOMAIN listeners' = DOMAIN listeners
                     /\ listeners'[e] = Without(l, listeners[e])
                     /\ \A x \in DOMAIN listeners \ {e} :
                          listeners'[x] = listeners[x]
                ELSE listeners' = listeners]_vars

(***************************************************************************)
(* Claims about dispatch (Spec).                                           *)
(***************************************************************************)
Max(S) == CHOOSE x \in S : \A y \in S : y <= x

\* the listeners subscribed to an event
Subs(e) == IF e \in DOMAIN listeners THEN listeners[e] ELSE <<>>

RECURSIVE Depth(_)
\* the recursion depth of the graph from an event: the dispatch calls nested
\* in one another along the longest path, the one of the event included
Depth(e) ==
    IF Subs(e) = <<>> THEN 1
    ELSE 1 + Max({Depth(Name(Subs(e)[k])) : k \in 1..Len(Subs(e))})

RECURSIVE NoSplit(_)
\* no Split is reachable from an event
NoSplit(e) ==
    \A k \in 1..Len(Subs(e)) :
       Obj(Subs(e)[k]).BLOCK_TYPE # "Split" /\ NoSplit(Name(Subs(e)[k]))

\* the listener invocations in flight: started and not finished
InFlight ==
    orphans.running
    + Cardinality(UNION { UNION { { <<c, k, t>> :
          t \in { t \in DOMAIN calls[c].stack[k].tasks :
                    calls[c].stack[k].tasks[t].c.st = "running" } } :
          k \in DOMAIN calls[c].stack } : c \in DOMAIN calls })

\* C3 (as claimed): a dispatch of an event whose list of subscriptions is
\* empty invokes no action, returns None and appends the one message
\* "no listeners" to the log.
C3_NoSubscribersNull ==
    [][\A c \in DOMAIN calls :
         (/\ Active(c)
          /\ Top(c).pc = "acquire"
          /\ get_subscriptions(listeners, Top(c).event_name) = <<>>
          /\ semaphore' = semaphore - 1)
         => LET st == calls'[c].stack
                f == st[Len(st)]
            IN  /\ Len(st) = Len(calls[c].stack)
                /\ f.pc = "exit"
                /\ f.ret = NullRet
                /\ f.tasks = <<>>
                /\ logs' = Log(logs, <<"no listeners", Top(c).event_name>>)]_vars

\* C5: in a graph of non-Split actions whose recursion depth exceeds
\* max_concurrent_actions, a top-level dispatch never returns, and it raises
\* only if the core logic of an action raised: when every action completes,
\* the call stays blocked, holding its permit below a nested call that waits
\* for one.
C5_Deadlock ==
    \A c \in DOMAIN calls :
       (/\ NoSplit(calls[c].event_name)
        /\ cfg.max_concurrent_actions < Depth(calls[c].event_name))
       => /\ calls[c].st # "returned"
          /\ calls[c].st = "raised" => calls[c].err \in {RaiseV(e) : e \in CoreErrors}

\* max_concurrent_actions = 1, recursion depth 2, the action has completed:
\* the top-level call holds the only permit and its nested call waits for
\* it, as does the call of the other caller
C5_Witness ==
    /\ cfg.max_concurrent_actions = 1
    /\ Len(calls) = 2
    /\ calls[2].st = "active"
    /\ calls[2].stack[1].pc = "acquire"
    /\ calls[1].st = "active"
    /\ NoSplit(calls[1].event_name)
    /\ Depth(calls[1].event_name) = 2
    /\ semaphore = 0
    /\ Len(calls[1].stack) = 2
    /\ calls[1].stack[1].pc = "call"
    /\ \A t \in DOMAIN calls[1].stack[1].tasks : calls[1].stack[1].tasks[t].c.st = "ok"
    /\ calls[1].stack[2].pc = "acquire"

\* C6 (as claimed): the listener invocations in flight are never more than
\* max_concurrent_actions.
C6_InFlightBounded == InFlight <= cfg.max_concurrent_actions

\* the nested dispatch calls issued for a task that returned
Fanout(t) ==
    IF Obj(t.listener).BLOCK_TYPE = "Split" THEN Len(t.c.out) - 1 ELSE 1

\* the payload of the m-th of them
Payload(t, m) ==
    IF Obj(t.listener).BLOCK_TYPE = "Split" THEN StrV(t.c.out[m + 1]) ELSE t.c.out

\* the nested calls of listener n of frame f that have returned
Returned(f, n) ==
    IF n < f.i \/ f.pc = "exit" THEN Fanout(f.tasks[n])
    ELSE IF n = f.i /\ f.pc = "call" THEN f.j - 1
    ELSE 0

RECURSIVE Expected(_, _)
\* the (listener, element) pairs the records of f stand for, in order, for
\* the listeners from the n-th on
Expected(f, n) ==
    IF n > f.i THEN <<>>
    ELSE [m \in 1..Returned(f, n) |-> <<n, m>>] \o Expected(f, n + 1)

\* the frames that are not unwinding
Steady(f) == f.pc \in {"task", "call", "exit"} /\ f.i >= 1

\* C7: a Split whose output has k elements gets exactly k nested dispatch
\* calls of the event named after it, the m-th with the m-th element as its
\* payload, and k records in element order; any other action gets one nested
\* call with its whole output and one record.
C7_SplitFanout ==
    \A c \in DOMAIN calls :
      \A k \in DOMAIN calls[c].stack :
        LET f == calls[c].stack[k]
            exp == Expected(f, 1)
        IN  Steady(f) =>
            \* one record per nested call that returned, in order
            /\ Len(f.results) = Len(exp)
            /\ \A p \in 1..Len(exp) :
                 LET t == f.tasks[exp[p][1]]
                     r == f.results[p]
                 IN  /\ r.event_name = Name(t.listener)
                     /\ r.result = t.c.out
                     /\ r.has_chain
                     \* its chain is what the call with the m-th payload gave:
                     \* b, subscribed first, returns its payload
                     /\ (~r.chain.null /\ r.chain.recs # <<>>
                         /\ Subs(r.event_name)[1] = "b")
                        => r.chain.recs[1].result = Payload(t, exp[p][2])
            \* the nested call in progress is the j-th of at most k
            /\ f.pc = "call" =>
                 /\ f.j <= Fanout(f.tasks[f.i])
                 /\ k < Len(calls[c].stack)
                 /\ calls[c].stack[k + 1].event_name = Name(f.tasks[f.i].listener)
                 /\ calls[c].stack[k + 1].payload = Payload(f.tasks[f.i], f.j)
            /\ f.pc # "call" => k = Len(calls[c].stack)

\* the Split "S" returned ["a", "b"], nothing is subscribed to "S": two
\* records with a null chain
C7_Witness ==
    /\ calls # <<>>
    /\ calls[1].st = "active"
    /\ "S" \notin DOMAIN listeners
    /\ LET f == calls[1].stack[1] IN
          /\ f.pc = "exit"
          /\ f.ret = ListRet(<<Rec("S", ListV(<<"a", "b">>), NullRet),
                               Rec("S", ListV(<<"a", "b">>), NullRet)>>)

\* C8 (as claimed): with nested results, a dispatch of an event with
\* subscribers returns its records in subscription order, one record
\* {name, output, chain} per non-Split subscriber, and chain is None exactly
\* when nothing is subscribed to the name of the action.
C8_NestedRecords ==
    \A c \in DOMAIN calls :
      \A k \in DOMAIN calls[c].stack :
        LET f == calls[c].stack[k]
            exp == Expected(f, 1)
        IN  (f.pc = "exit" /\ ~f.ret.null /\ ~cfg.flatten_results) =>
            /\ Len(f.ret.recs) = Len(exp)
            /\ \A p \in 1..Len(exp) :
                 LET t == f.tasks[exp[p][1]]
                     r == f.ret.recs[p]
                 IN  /\ r.event_name = Name(t.listener)
                     /\ r.result = t.c.out
                     /\ r.has_chain
                     /\ r.chain.null <=>
                          get_subscriptions(listeners, r.event_name) = <<>>

\* C10: a call that awaits a task that raised, or a nested call that raised,
\* ends raising that same exception, and so does every call around it up to
\* the caller, who gets this exception and no result; a call that returns
\* has awaited every one of its tasks and nested calls, and none of them
\* raised.
C10_FrameSound(f, isTop) ==
    /\ \A t \in DOMAIN f.tasks :
         (t < f.i \/ (t = f.i /\ f.pc \in {"call", "exit"})) => f.tasks[t].c.st = "ok"
    /\ f.pc = "raise" => isTop /\ f.err[1] = "raise"
    /\ (f.pc = "exit" /\ ~f.ret.null) =>
         /\ f.i = Len(Subs(f.event_name))
         /\ Len(f.results) = Len(Expected(f, 1))

C10_ErrorPropagates ==
    [][\A c \in DOMAIN calls' :
         /\ \A k \in DOMAIN calls'[c].stack :
              C10_FrameSound(calls'[c].stack[k], k = Len(calls'[c].stack))
         /\ calls'[c].st = "returned" => calls'[c].err = NoneV
         /\ calls'[c].st = "raised" =>
              calls'[c].ret = NullRet /\ calls'[c].err[1] = "raise"
         /\ (c \in DOMAIN calls /\ Active(c)) =>
              LET st == calls[c].stack
                  st2 == calls'[c].stack
                  f == Top(c)
              IN  \* the awaited task raised: the call raises its exception
                  /\ (/\ f.pc = "task"
                      /\ f.tasks[f.i].c.st = "err"
                      /\ Len(st2) = Len(st)
                      /\ st2[Len(st)].pc # "task")
                     => /\ st2[Len(st)].pc = "raise"
                        /\ st2[Len(st)].err = f.tasks[f.i].c.out
                  \* a call raises: the call that awaits it, or the caller,
                  \* gets its exception
                  /\ (f.pc = "raise" /\ Len(st2) # Len(st))
                     => IF Len(st) = 1
                        THEN /\ calls'[c].st = "raised"
                             /\ calls'[c].err = f.err
                        ELSE /\ Len(st2) = Len(st) - 1
                             /\ st2[Len(st2)].pc = "raise"
                             /\ st2[Len(st2)].err = f.err
                             /\ st2[Len(st2)].results = st[Len(st2)].results]_vars

\* the exception of b, two dispatch levels below the top-level call, has
\* reached the caller
C10_Witness ==
    /\ calls # <<>>
    /\ calls[1].st = "raised"
    /\ calls[1].event_name = "start"
    /\ calls[1].err = RaiseV("E2")
    /\ Subs("start") = <<"a1">>
    /\ Subs("A") = <<"b">>

\* C13 (as claimed): in both modes, every subscriber of a dispatched event
\* is invoked with the payload the dispatch call was made with.
C13_SamePayload ==
    \A c \in DOMAIN calls :
      \A k \in DOMAIN calls[c].stack :
        \A t \in DOMAIN calls[c].stack[k].tasks :
          calls[c].stack[k].tasks[t].data = calls[c].stack[k].payload

\* C14: in depth-first mode, within one dispatch call the invocation of a
\* subscriber exists only once every subscriber before it has returned and
\* every nested dispatch call made for those has returned with its record:
\* the only task that may be unfinished, and the only one a nested call may
\* be in progress for, is the last one created.
C14_DepthFirstOrder ==
    cfg.depth_first =>
      \A c \in DOMAIN calls :
        \A k \in DOMAIN calls[c].stack :
          LET f == calls[c].stack[k] IN
          /\ Len(f.tasks) = f.i
          /\ \A t \in 1..(Len(f.tasks) - 1) :
               /\ f.tasks[t].c.st = "ok"
               /\ Returned(f, t) = Fanout(f.tasks[t])
          /\ Steady(f) => Len(f.results) = Len(Expected(f, 1))
          /\ k < Len(calls[c].stack) =>
               /\ f.pc = "call"
               /\ f.tasks[f.i].c.st = "ok"
               /\ calls[c].stack[k + 1].event_name = Name(f.tasks[f.i].listener)

\* depth-first, a1 then b subscribed to "start" and b to "A": b is running
\* for "start" after a1 and the nested call for "A" under it have returned
C14_Witness ==
    /\ cfg.depth_first
    /\ calls # <<>>
    /\ calls[1].st = "active"
    /\ Subs("start") = <<"a1", "b">>
    /\ Subs("A") = <<"b">>
    /\ Len(calls[1].stack) = 1
    /\ LET f == calls[1].stack[1] IN
          /\ f.event_name = "start"
          /\ f.i = 2
          /\ f.tasks[2].c.st = "running"
          /\ Len(f.results) = 1
          /\ ~f.results[1].chain.null
          /\ Len(f.results[1].chain.recs) = 1

\* C15 (as claimed): in breadth-first mode every subscriber's invocation is
\* created when the call starts, and no nested dispatch call of the level
\* begins before every subscriber's invocation has produced its result.
C15_BreadthFirstBarrier ==
    ~cfg.depth_first =>
      \A c \in DOMAIN calls :
        \A k \in DOMAIN calls[c].stack :
          LET f == calls[c].stack[k] IN
          /\ f.pc # "acquire" => Len(f.tasks) = Len(Subs(f.event_name))
          /\ k < Len(calls[c].stack) =>
               \A t \in DOMAIN f.tasks : f.tasks[t].c.st = "ok"

\* the dispatch calls, top-level or nested, that have acquired a permit and
\* have neither returned nor raised
Holders ==
    Cardinality(UNION { { <<c, k>> : k \in { k \in DOMAIN calls[c].stack :
                                               calls[c].stack[k].pc # "acquire" } } :
                        c \in DOMAIN calls })

\* C16: the permits taken from the semaphore are exactly one per dispatch
\* call, top-level or nested, between its acquisition and its return or
\* raise; they are never more than max_concurrent_actions; and when no
\* dispatch call is in progress, whatever the earlier calls did, all
\* max_concurrent_actions permits are available.
C16_OnePermitPerCall ==
    /\ semaphore = cfg.max_concurrent_actions - Holders
    /\ Holders <= cfg.max_concurrent_actions
    /\ (\A c \in DOMAIN calls : ~Active(c)) => semaphore = cfg.max_concurrent_actions

\* two concurrent dispatches two levels deep: one has raised to its caller
\* and the other has returned, and all three permits are back
C16_Witness ==
    /\ cfg.max_concurrent_actions = 3
    /\ Len(calls) = 2
    /\ calls[1].st = "raised"
    /\ calls[1].err = RaiseV("E2")
    /\ calls[2].st = "returned"
    /\ ~calls[2].ret.null
    /\ Subs("start") = <<"a1">>
    /\ Subs("A") = <<"b">>
    /\ semaphore = 3

\* what listener l returns on data when its core logic succeeds
Output(l, data) == Parser(Obj(l), Forward(Obj(l), data))

RECURSIVE Nested(_, _), NestedFrom(_, _, _)
\* the nested tree of a dispatch of event e with payload data that returns,
\* with flatten_results disabled: None, or the records of the subscribers
\* from the first on
Nested(e, data) ==
    IF e \in DOMAIN listeners THEN ListRet(NestedFrom(e, data, 1)) ELSE NullRet

\* the records of the subscribers of e from the k-th on; data is what the
\* k-th is invoked with
NestedFrom(e, data, k) ==
    IF k > Len(listeners[e]) THEN <<>>
    ELSE LET l == listeners[e][k]
             out == Output(l, data)
             chain == Chain(l, out)
         IN  [m \in 1..Len(chain) |-> Rec(Name(l), out, Nested(Name(l), chain[m]))]
             \o NestedFrom(e, IF cfg.depth_first THEN TupleV(out) ELSE data, k + 1)

\* C19: a top-level dispatch that returns gives, with flatten_results
\* disabled, the nested tree of the graph, and with flatten_results enabled
\* (same subscriptions, same mode, same payload) one flat list of
\* {event_name, result} pairs without chain that is the depth-first
\* pre-order walk of that tree, whatever the depth; None stays None.
C19_FlatIsPreOrder ==
    \A c \in DOMAIN calls :
       calls[c].st = "returned" =>
         LET nested == Nested(calls[c].event_name, calls[c].data) IN
         IF ~cfg.flatten_results THEN calls[c].ret = nested
         ELSE /\ calls[c].ret.null = nested.null
              /\ calls[c].ret.recs = PreOrder(nested.recs)
              /\ \A k \in 1..Len(calls[c].ret.recs) : ~calls[c].ret.recs[k].has_chain

\* flatten_results enabled; a1 and b subscribed to "start", b also to "A":
\* the record of the nested call for "A" comes between those of "start"
C19_Witness ==
    /\ cfg.flatten_results
    /\ ~cfg.depth_first
    /\ calls # <<>>
    /\ calls[1].st = "returned"
    /\ calls[1].event_name = "start"
    /\ calls[1].data = StrV("d")
    /\ Subs("start") = <<"a1", "b">>
    /\ Subs("A") = <<"b">>
    /\ calls[1].ret = ListRet(<<Pair("A", StrV("x")), Pair("B", StrV("x")),
                                Pair("B", StrV("d"))>>)

\* the top-level call is in progress and max_concurrent_actions is at least
\* the recursion depth of the graph from its event (the longest chain of
\* actions, plus one)
EnoughPermits ==
    /\ calls # <<>>
    /\ calls[1].st = "active"
    /\ cfg.max_concurrent_actions >= Depth(calls[1].event_name)

\* C20: a top-level dispatch over the acyclic graph, made with
\* max_concurrent_actions at least L+1 for L the longest chain of actions from
\* its event, eventually returns or raises, in both modes; meanwhile the
\* calls holding a permit are the frames of one nesting chain, never more
\* than L+1.
C20_EventuallyCompletes ==
    /\ [](EnoughPermits =>
            /\ Holders <= Depth(calls[1].event_name)
            /\ Holders <= Len(calls[1].stack))
    /\ EnoughPermits ~> (calls # <<>> /\ calls[1].st \in {"returned", "raised"})

\* a dispatch over a chain of two actions has returned with three permits
C20_Witness ==
    /\ cfg.max_concurrent_actions = 3
    /\ calls # <<>>
    /\ calls[1].st = "returned"
    /\ calls[1].event_name = "start"
    /\ Depth("start") = 3
    /\ ~calls[1].ret.null
    /\ Len(calls[1].ret.recs) > 0

(***************************************************************************)
(* Claims about the result flattener (SpecFlatten).                        *)
(***************************************************************************)
\* C9 (as claimed): for any result tree, flatten_results returns exactly the
\* {event_name, result} pairs of its depth-first pre-order walk, in order,
\* none of them with a chain.
C9_FlattenPreOrder == ~flat.null => flat.recs = PreOrder(tree)

====
